---- MODULE Spec2Model ----
(***************************************************************************)
(* openapigen (src/main.go): one run of the command.  main opens the spec  *)
(* file, decodes and converts it when -v2mode is set, optionally prints it *)
(* (-view), then walks the template directory with filepath.Walk; the walk *)
(* callback renders every *.tpl file into the mirrored output directory.   *)
(*                                                                         *)
(* Strings are sequences of one-character strings, so that the path and    *)
(* suffix operations of the code are computed, character by character, the *)
(* way path/filepath and strings compute them.  Byte strings (firstLetter) *)
(* are sequences of byte values 0..255.                                    *)
(***************************************************************************)
EXTENDS Integers, Sequences, FiniteSets, TLC

(***************************************************************************)
(* Bounds of the model.                                                    *)
(***************************************************************************)
\* Largest number of entries of one directory of the template tree.
MaxEntries == 2
\* Largest number of paths of the decoded API description.
MaxPaths == 2

(***************************************************************************)
(* Strings.                                                                *)
(***************************************************************************)
\* The byte value of a character: Go compares strings byte by byte.
Byte(c) ==
    CASE c = "." -> 46
      [] c = "/" -> 47
      [] c = "a" -> 97
      [] c = "b" -> 98
      [] c = "c" -> 99
      [] c = "d" -> 100
      [] c = "l" -> 108
      [] c = "o" -> 111
      [] c = "p" -> 112
      [] c = "r" -> 114
      [] c = "s" -> 115
      [] c = "t" -> 116

\* Go's s < t on strings: lexicographic on the bytes.
RECURSIVE StrLess(_, _)
StrLess(s, t) ==
    IF t = <<>> THEN FALSE
    ELSE IF s = <<>> THEN TRUE
    ELSE IF Byte(Head(s)) # Byte(Head(t)) THEN Byte(Head(s)) < Byte(Head(t))
    ELSE StrLess(Tail(s), Tail(t))

\* strings.HasPrefix, strings.HasSuffix
HasPrefix(s, prefix) ==
    Len(s) >= Len(prefix) /\ SubSeq(s, 1, Len(prefix)) = prefix

HasSuffix(s, suffix) ==
    Len(s) >= Len(suffix) /\ SubSeq(s, Len(s) - Len(suffix) + 1, Len(s)) = suffix

\* strings.TrimPrefix: s without the leading prefix, s itself when it has none.
TrimPrefix(s, prefix) ==
    IF HasPrefix(s, prefix) THEN SubSeq(s, Len(prefix) + 1, Len(s)) ELSE s

\* strings.TrimSuffix: s without ONE trailing suffix, s itself when it has none.
TrimSuffix(s, suffix) ==
    IF HasSuffix(s, suffix) THEN SubSeq(s, 1, Len(s) - Len(suffix)) ELSE s

\* The position of the last "/" of s, 0 when it has none (strings.LastIndex).
LastSlash(s) ==
    IF \E i \in 1..Len(s) : s[i] = "/"
    THEN CHOOSE i \in 1..Len(s) : s[i] = "/" /\ \A j \in (i+1)..Len(s) : s[j] # "/"
    ELSE 0

\* sort.Strings: the sequence in ascending byte order (insertion sort; the
\* result of sorting is the same for every correct algorithm).
RECURSIVE InsertSorted(_, _)
InsertSorted(sorted, s) ==
    IF sorted = <<>> THEN <<s>>
    ELSE IF StrLess(s, Head(sorted)) THEN <<s>> \o sorted
    ELSE <<Head(sorted)>> \o InsertSorted(Tail(sorted), s)

RECURSIVE SortStrings(_)
SortStrings(seq) ==
    IF seq = <<>> THEN <<>>
    ELSE InsertSorted(SortStrings(SubSeq(seq, 1, Len(seq) - 1)), seq[Len(seq)])

\* The sequences that list every element of the set S exactly once: the
\* orders in which a Go map or a directory listing may yield its keys.
Orders(S) ==
    {f \in [1..Cardinality(S) -> S] : \A x \in S : \E i \in DOMAIN f : f[i] = x}

(***************************************************************************)
(* path/filepath on a slash-separated system.                              *)
(***************************************************************************)
\* The elements of a path between its slashes (empty ones included).
RECURSIVE SplitSlash(_)
SplitSlash(p) ==
    IF \A i \in 1..Len(p) : p[i] # "/" THEN <<p>>
    ELSE LET i == CHOOSE k \in 1..Len(p) :
                     p[k] = "/" /\ \A j \in 1..(k-1) : p[j] # "/"
         IN  <<SubSeq(p, 1, i - 1)>> \o SplitSlash(SubSeq(p, i + 1, Len(p)))

\* filepath.Clean's pass over the elements: "" and "." are dropped, ".."
\* removes the element before it (and is dropped at the root).
RECURSIVE CleanElems(_, _, _)
CleanElems(elems, acc, rooted) ==
    IF elems = <<>> THEN acc
    ELSE LET e == Head(elems)
         IN  IF e = <<>> \/ e = <<".">> THEN CleanElems(Tail(elems), acc, rooted)
             ELSE IF e = <<".", ".">>
             THEN IF acc # <<>> /\ acc[Len(acc)] # <<".", ".">>
                  THEN CleanElems(Tail(elems), SubSeq(acc, 1, Len(acc) - 1), rooted)
                  ELSE IF rooted THEN CleanElems(Tail(elems), acc, rooted)
                  ELSE CleanElems(Tail(elems), Append(acc, e), rooted)
             ELSE CleanElems(Tail(elems), Append(acc, e), rooted)

RECURSIVE JoinSlash(_)
JoinSlash(elems) ==
    IF elems = <<>> THEN <<>>
    ELSE IF Len(elems) = 1 THEN elems[1]
    ELSE elems[1] \o <<"/">> \o JoinSlash(Tail(elems))

\* filepath.Clean
Clean(p) ==
    IF p = <<>> THEN <<".">>
    ELSE LET rooted == p[1] = "/"
             body   == JoinSlash(CleanElems(SplitSlash(p), <<>>, rooted))
         IN  IF rooted THEN <<"/">> \o body
             ELSE IF body = <<>> THEN <<".">> ELSE body

\* filepath.Join of two elements
Join(a, b) ==
    IF a = <<>> /\ b = <<>> THEN <<>>
    ELSE IF a = <<>> THEN Clean(b)
    ELSE IF b = <<>> THEN Clean(a)
    ELSE Clean(a \o <<"/">> \o b)

\* filepath.Dir: everything up to the last slash, cleaned.
Dir(p) == Clean(SubSeq(p, 1, LastSlash(p)))

\* The path without its trailing slashes.
RECURSIVE StripTrailingSlashes(_)
StripTrailingSlashes(p) ==
    IF p # <<>> /\ p[Len(p)] = "/"
    THEN StripTrailingSlashes(SubSeq(p, 1, Len(p) - 1))
    ELSE p

\* filepath.Base: the last element of the path.
Base(p) ==
    IF p = <<>> THEN <<".">>
    ELSE LET q == StripTrailingSlashes(p)
             r == SubSeq(q, LastSlash(q) + 1, Len(q))
         IN  IF r = <<>> THEN <<"/">> ELSE r

\* filepath.Ext: from the last dot of the last element, "" when it has none.
Ext(p) ==
    LET from == LastSlash(p) + 1
    IN  IF \E i \in from..Len(p) : p[i] = "."
        THEN LET i == CHOOSE k \in from..Len(p) :
                          p[k] = "." /\ \A j \in (k+1)..Len(p) : p[j] # "."
             IN  SubSeq(p, i, Len(p))
        ELSE <<>>

\* The template suffix of the walk callback.
TplSuffix == <<".", "t", "p", "l">>


(***************************************************************************)
(* The helper functions of the template function table.                    *)
(***************************************************************************)
\* string(b) for a byte b: Go converts the integer to the UTF-8 encoding of
\* the code point of that value (one byte below 0x80, two bytes up to 0xFF).
StringOfByte(b) ==
    IF b < 128 THEN <<b>> ELSE <<192 + (b \div 64), 128 + (b % 64)>>

\* firstLetter
firstLetter(s) ==
    IF Len(s) = 0 THEN <<>> ELSE StringOfByte(s[1])

\* An operation of a path item: absent (a nil pointer) or present with tags.
NoOp == [present |-> FALSE, Tags |-> <<>>]
Op(tags) == [present |-> TRUE, Tags |-> tags]

\* The operations of a path item in the order uniquePathTags reads them.
Methods ==
    <<"Connect", "Delete", "Get", "Head", "Options", "Patch", "Post", "Put", "Trace">>

\* The appends of one iteration of uniquePathTags' loop over swagger.Paths.
RECURSIVE ItemTags(_, _)
ItemTags(pathItem, i) ==
    IF i > Len(Methods) THEN <<>>
    ELSE (IF pathItem[Methods[i]].present THEN pathItem[Methods[i]].Tags ELSE <<>>)
         \o ItemTags(pathItem, i + 1)

\* The tags slice after the loop, the paths taken in the order pathOrder.
RECURSIVE CollectTags(_, _)
CollectTags(paths, pathOrder) ==
    IF pathOrder = <<>> THEN <<>>
    ELSE ItemTags(paths[Head(pathOrder)], 1) \o CollectTags(paths, Tail(pathOrder))

\* tagsDict: the keys of the map the tags are put into.
TagsDict(tags) == {tags[i] : i \in DOMAIN tags}

\* uniquePathTags as it would be without the map that removes the repeated
\* tags: what was collected is sorted as it is.
uniquePathTagsNoDict(paths, pathOrder, dictOrder) ==
    SortStrings(CollectTags(paths, pathOrder))

\* uniquePathTags, for one iteration order of swagger.Paths (pathOrder) and
\* one iteration order of tagsDict (dictOrder).
uniquePathTags(paths, pathOrder, dictOrder) ==
    LET tags     == CollectTags(paths, pathOrder)
        tagsDict == TagsDict(tags)
        uniqTags == [i \in 1..Cardinality(tagsDict) |-> dictOrder[i]]
    IN  SortStrings(uniqTags)

\* The iteration orders of tagsDict that go with an iteration order of Paths.
DictOrders(paths, pathOrder) == Orders(TagsDict(CollectTags(paths, pathOrder)))

(***************************************************************************)
(* The decoded API description (swagger) and the spec file.                *)
(***************************************************************************)
NoItem == [m \in {Methods[i] : i \in DOMAIN Methods} |-> NoOp]

\* Path items the descriptions of the model are built from.
ItemPool ==
    { [NoItem EXCEPT !.Get = Op(<< <<"b">>, <<"a">> >>)],
      [NoItem EXCEPT !.Post = Op(<< <<"a">> >>), !.Delete = Op(<<>>)],
      [NoItem EXCEPT !.Put = Op(<< <<"a", "b">>, <<"b">> >>), !.Head = Op(<< <<>> >>)] }

\* The paths maps: URL keys 1..MaxPaths, each present key bound to an item.
PathMaps == UNION {[K -> ItemPool] : K \in SUBSET (1..MaxPaths)}

\* *openapi3.Swagger: the nil pointer, or a description with its Paths.
NilSwagger == [nil |-> TRUE, Paths |-> <<>>]
Swagger(paths) == [nil |-> FALSE, Paths |-> paths]

\* The description of the spec's example: operations tagged {b,a}, {a}, {}.
ExampleDoc ==
    Swagger([k \in {1, 2} |->
        IF k = 1 THEN [NoItem EXCEPT !.Get = Op(<< <<"b">>, <<"a">> >>)]
        ELSE [NoItem EXCEPT !.Post = Op(<< <<"a">> >>), !.Delete = Op(<<>>)]])

\* The spec file: missing, or holding nothing, bytes that are no JSON, a v2 document
\* the converter rejects, or a v2 document that converts to a description.
SpecFiles ==
    { [kind |-> k, doc |-> NilSwagger] :
        k \in {"missing", "empty", "garbage", "unconvertible"} }
    \cup { [kind |-> "valid", doc |-> d] : d \in {Swagger(<<>>), ExampleDoc} }

(***************************************************************************)
(* The template tree and filepath.Walk's visits of it.                     *)
(***************************************************************************)
NameA       == <<"a">>
NameATpl    == <<"a", ".", "t", "p", "l">>
NameATplTpl == <<"a", ".", "t", "p", "l", ".", "t", "p", "l">>
NameDTpl    == <<"d", ".", "t", "p", "l">>
NameBTpl    == <<"b", ".", "t", "p", "l">>
NameTpl     == <<".", "t", "p", "l">>

RootNames == {NameA, NameATpl, NameATplTpl, NameDTpl}
KidNames  == {NameBTpl, NameTpl}

\* An entry of a directory.  A directory is readable when its names can be
\* listed, and searchable when its entries can be lstat-ed (a directory of
\* mode 0444 is readable and not searchable).
FileNode == [isDir |-> FALSE, readable |-> TRUE, search |-> TRUE, kids |-> {}]
DirNodes ==
    { [isDir |-> TRUE, readable |-> m[1], search |-> m[2], kids |-> k] :
        m \in {<<TRUE, TRUE>>, <<TRUE, FALSE>>, <<FALSE, TRUE>>},
        k \in {x \in SUBSET KidNames : Cardinality(x) <= MaxEntries} }

\* What an entry of the given name may be in the trees of the model.
NodesOf(name) ==
    IF name \in {NameA, NameDTpl} THEN {FileNode} \cup DirNodes ELSE {FileNode}

\* The template trees: the root is missing, a regular file, a directory
\* that cannot be read, a directory whose entries cannot be lstat-ed, or a
\* directory of files and sub-directories (of files).
Trees ==
    { [root |-> r, entries |-> <<>>] : r \in {"missing", "unreadable", "file"} }
    \cup
    { [root |-> "nosearch", entries |-> f] :
        f \in UNION { [K -> {FileNode}] :
                      K \in {x \in SUBSET RootNames : Cardinality(x) <= MaxEntries} } }
    \cup
    { [root |-> "ok", entries |-> f] :
        f \in UNION { {g \in [K -> {FileNode} \cup DirNodes] :
                          \A n \in K : g[n] \in NodesOf(n)} :
                      K \in {x \in SUBSET RootNames : Cardinality(x) <= MaxEntries} } }

\* readDirNames: the names of a directory, sorted.
SortedNames(S) == SortStrings(CHOOSE f \in Orders(S) : TRUE)

\* One call of the walk function: walkFn(path, info, err).
Visit(path, isDir, infoNil, err) ==
    [path |-> path, isDir |-> isDir, infoNil |-> infoNil, err |-> err]

\* filepath.walk over the names of a directory of files: each is lstat-ed
\* and visited; when lstat fails (the directory cannot be searched) the
\* callback gets info = nil and the error.
RECURSIVE KidVisits(_, _, _)
KidVisits(dir, names, search) ==
    IF names = <<>> THEN <<>>
    ELSE <<Visit(Join(dir, Head(names)), FALSE, ~search, ~search)>>
         \o KidVisits(dir, Tail(names), search)

\* filepath.walk of one entry of the root: a file is visited; a directory is
\* visited, with the error of reading it if any, and then, when it was read
\* (the callback returns nil for a directory), its files in sorted order.
\* An entry that cannot be lstat-ed (search is FALSE for its directory) is
\* visited with info = nil and the error, and not walked into.
EntryVisits(path, node, search) ==
    IF ~search THEN <<Visit(path, FALSE, TRUE, TRUE)>>
    ELSE IF ~node.isDir THEN <<Visit(path, FALSE, FALSE, FALSE)>>
    ELSE IF ~node.readable THEN <<Visit(path, TRUE, FALSE, TRUE)>>
    ELSE <<Visit(path, TRUE, FALSE, FALSE)>>
         \o KidVisits(path, SortedNames(node.kids), node.search)

RECURSIVE EntriesVisits(_, _, _, _)
EntriesVisits(root, entries, names, search) ==
    IF names = <<>> THEN <<>>
    ELSE EntryVisits(Join(root, Head(names)), entries[Head(names)], search)
         \o EntriesVisits(root, entries, Tail(names), search)

\* filepath.Walk(root, walkFn): the calls of walkFn as long as it returns nil.
WalkVisits(tree, root) ==
    IF tree.root = "missing" THEN <<Visit(root, FALSE, TRUE, TRUE)>>
    ELSE IF tree.root = "file" THEN <<Visit(root, FALSE, FALSE, FALSE)>>
    ELSE IF tree.root = "unreadable" THEN <<Visit(root, TRUE, FALSE, TRUE)>>
    ELSE <<Visit(root, TRUE, FALSE, FALSE)>>
         \o EntriesVisits(root, tree.entries, SortedNames(DOMAIN tree.entries),
                          tree.root = "ok")


(***************************************************************************)
(* The state of a run.                                                     *)
(***************************************************************************)
VARIABLES
    isOpenAPIV2,  \* flag -v2mode
    isHTML,       \* flag -html
    view,         \* flag -view
    specFile,     \* the file -spec names
    templateDir,  \* filepath.Abs of -template
    tree,         \* the directory tree at templateDir
    swagger,      \* main's variable swagger
    pc,           \* where main, or the walk callback, stands
    pos,          \* the visit filepath.Walk makes next
    kind,         \* what the template read by the callback holds
    cbErr,        \* the error the callback returns
    walkErrSeen,  \* filepath.Walk has handed an error to the callback
    openFds,      \* the output files open in the process
    outDirs,      \* the directories that exist on the output side
    outFiles,     \* the files that exist under the output root
    readLog,      \* the templates read so far, in order
    renderLog,    \* the templates whose output file was created, in order
    status,       \* running, or how the process ended
    diag,         \* the line log.Fatal printed
    pathOrder,    \* the iteration order of swagger.Paths in the last call
    tagsOut,      \* what uniquePathTags returned last
    letterIn,     \* the argument of the last firstLetter call
    letterOut     \* what firstLetter returned last

vars ==
    << isOpenAPIV2, isHTML, view, specFile, templateDir, tree, swagger, pc, pos,
       kind, cbErr, walkErrSeen, openFds, outDirs, outFiles, readLog, renderLog,
       status, diag, pathOrder, tagsOut, letterIn, letterOut >>

\* What a run is given and never changes.
inputs == << isOpenAPIV2, isHTML, view, specFile, templateDir, tree >>

\* filepath.Abs of -output
outputDir == <<"/", "o">>

\* The values of -template in the model.
TemplateDirs == { <<"/", "t">>, <<"/", "r", ".", "t", "p", "l">> }

\* The arguments of firstLetter in the model: "", "a", "ab", "~", "é", "éa",
\* "ÿ", "€" and "😀" in UTF-8.
LetterInputs ==
    { <<>>, <<97>>, <<97, 98>>, <<126>>, <<195, 169>>, <<195, 169, 97>>,
      <<195, 191>>, <<226, 130, 172>>, <<240, 159, 152, 128>> }

\* What a template file may hold: text that is no template; plain text; a
\* reference to a field of the model; a call of uniquePathTags; a call of
\* firstLetter; an action that fails when executed.
TemplateKinds == {"badparse", "static", "field", "tags", "letter", "execfail"}

\* A nil error, and the errors of the callback and of main.
NoErr == [stage |-> "", names |-> {}, cause |-> ""]
Err(stage, names, cause) == [stage |-> stage, names |-> names, cause |-> cause]
NoDiag == [msg |-> "", err |-> NoErr]

\* The visits of this run's walk.
visits == WalkVisits(tree, templateDir)

(***************************************************************************)
(* The output path mapping of the callback (lines 186 and 192).            *)
(***************************************************************************)
\* The destination directory as it would be if the position of the template
\* below the template root were dropped.
OutputDirFlat(path) == Dir(Join(outputDir, Base(path)))

OutputDirOf(path) == Dir(Join(outputDir, TrimPrefix(path, templateDir)))

\* The destination file as it would be if the suffix were stripped as often
\* as the name carries it.
RECURSIVE TrimAllSuffix(_, _)
TrimAllSuffix(s, suffix) ==
    IF HasSuffix(s, suffix) THEN TrimAllSuffix(TrimSuffix(s, suffix), suffix) ELSE s

OutputFileStripAll(path) ==
    TrimAllSuffix(Join(OutputDirOf(path), Base(path)), TplSuffix)

\* The destination file as it would be with the suffix left on the name.
OutputFileKeepSuffix(path) == Join(OutputDirOf(path), Base(path))

OutputFileOf(path) == TrimSuffix(Join(OutputDirOf(path), Base(path)), TplSuffix)

(***************************************************************************)
(* The file system on the output side.                                     *)
(***************************************************************************)
\* The directory and the directories above it.
RECURSIVE Ancestors(_)
Ancestors(dir) ==
    IF dir = <<"/">> \/ dir = <<".">> THEN {dir}
    ELSE {dir} \cup Ancestors(Dir(dir))

\* os.Stat(dir) fails with an error os.IsNotExist recognises: nothing has
\* that name, and nothing above it is a regular file (that is ENOTDIR).
StatNotExist(dir) ==
    /\ dir \notin outDirs
    /\ \A a \in Ancestors(dir) : a \notin DOMAIN outFiles

\* os.MkdirAll(dir) can succeed: no name on the way is a regular file.
CanMkdirAll(dir) == \A a \in Ancestors(dir) : a \notin DOMAIN outFiles

\* What os.MkdirAll(dir) has made when its Mkdir of the directory failed
\* returns an error: it makes the missing directories from the top down and
\* removes nothing.
MadeBefore(dir, failed) == {a \in Ancestors(dir) : Len(a) < Len(failed)}

\* os.Create(name) can succeed: the name is no directory (nor ends in a
\* slash) and the directory it lies in exists.
CanCreate(name) ==
    /\ name[Len(name)] # "/"
    /\ name \notin outDirs
    /\ Dir(name) \in outDirs


(***************************************************************************)
(* main, up to the walk.                                                   *)
(***************************************************************************)
fsVars     == << openFds, outDirs, outFiles >>
logVars    == << readLog, renderLog >>
helperVars == << pathOrder, tagsOut, letterIn, letterOut >>
walkVars   == << pos, kind, cbErr, walkErrSeen >>

\* The state every run starts in, whatever it is given.
Start ==
    /\ swagger = NilSwagger
    /\ pos = 1
    /\ kind = "none"
    /\ cbErr = NoErr
    /\ walkErrSeen = FALSE
    /\ openFds = {}
    /\ outDirs = {<<"/">>}
    /\ outFiles = [f \in {} |-> "empty"]
    /\ readLog = <<>>
    /\ renderLog = <<>>
    /\ status = "running"
    /\ diag = NoDiag
    /\ pathOrder = <<>>
    /\ tagsOut = <<>>
    /\ letterOut = <<>>

Init ==
    /\ isOpenAPIV2 \in BOOLEAN
    /\ isHTML \in BOOLEAN
    /\ view \in BOOLEAN
    /\ specFile \in SpecFiles
    /\ templateDir \in TemplateDirs
    /\ tree \in Trees
    /\ pc = "open"
    /\ letterIn = <<>>
    /\ Start

\* log.Fatal(msg, err): the diagnostic line, then os.Exit(1).
Fatal(msg, err) ==
    /\ diag' = [msg |-> msg, err |-> err]
    /\ status' = "exit1"
    /\ pc' = "exit"

\* Lines 53-56: os.Open(*spec).
OpenSpec ==
    /\ pc = "open"
    /\ IF specFile.kind = "missing"
       THEN Fatal("cannot open swagger json file:",
                  Err("", {}, "open: no such file or directory"))
       ELSE pc' = "decode" /\ UNCHANGED << status, diag >>
    /\ UNCHANGED << inputs, swagger, walkVars, fsVars, logVars, helperVars >>

\* What lines 58-69 leave in swagger: the file is decoded and converted only
\* when -v2mode is set; otherwise swagger keeps its zero value, nil.
DecodeResult(v2, file) == IF v2 THEN file.doc ELSE NilSwagger

\* The error of lines 61-68, NoErr when there is none.
DecodeError(v2, file) ==
    IF ~v2 THEN NoErr
    ELSE IF file.kind \in {"empty", "garbage"}
    THEN Err("cannot parse swaggerV2 json file:", {}, "json: cannot decode")
    ELSE IF file.kind = "unconvertible"
    THEN Err("cannot convert from v2 to v3:", {}, "openapi2conv: cannot convert")
    ELSE NoErr

\* Lines 57-69.
DecodeSpec ==
    /\ pc = "decode"
    /\ LET e == DecodeError(isOpenAPIV2, specFile)
       IN  IF e # NoErr
           THEN Fatal(e.stage, Err("", {}, e.cause)) /\ UNCHANGED swagger
           ELSE /\ swagger' = DecodeResult(isOpenAPIV2, specFile)
                /\ pc' = "view"
                /\ UNCHANGED << status, diag >>
    /\ UNCHANGED << inputs, walkVars, fsVars, logVars, helperVars >>

\* Lines 70-78: with -view the description is written to standard output
\* and the process exits 0; when it cannot be written, log.Fatal ends it.
ViewSpec ==
    /\ pc = "view"
    /\ IF view
       THEN \E encodeOK \in BOOLEAN :
               IF encodeOK
               THEN status' = "exit0" /\ pc' = "exit" /\ UNCHANGED diag
               ELSE Fatal("cannot encode spec file", NoErr)
       ELSE pc' = "dirs" /\ UNCHANGED << status, diag >>
    /\ UNCHANGED << inputs, swagger, walkVars, fsVars, logVars, helperVars >>

\* Lines 79-90: os.Getwd and filepath.Abs, which fails only when Getwd does.
ResolveDirs ==
    /\ pc = "dirs"
    /\ \E getwdOK \in BOOLEAN :
          IF getwdOK
          THEN pc' = "walk" /\ UNCHANGED << status, diag >>
          ELSE Fatal("cannot detect current working directory:",
                     Err("", {}, "getwd: no such file or directory"))
    /\ UNCHANGED << inputs, swagger, walkVars, fsVars, logVars, helperVars >>


(***************************************************************************)
(* The walk (line 91) and its callback (lines 91-201).                     *)
(***************************************************************************)
\* A walk that would go on after an error of its callback.
WalkNeverStops(err) == FALSE

\* filepath.Walk stops at the first error its callback returns and returns
\* it; main then ends the process (lines 202-204).
WalkStops(err) == err # NoErr

\* Line 92: the visits the callback returns nil for at once.
SkipVisit(path, isDir) ==
    Ext(path) # TplSuffix \/ (Ext(path) = TplSuffix /\ isDir)

\* A callback that would return without closing its output file.
NoClose(fds, visit) == fds

\* Line 196, run when the callback returns: the output file it opened is closed.
DeferredClose(fds, visit) == {f \in fds : f.visit # visit}

\* Lines 92-94: not a template file.  The err parameter of the callback is
\* shadowed and never read; filepath.Walk does not descend into a directory
\* it could not read and goes on with the next visit.
CallbackSkip ==
    /\ pc = "walk"
    /\ ~WalkStops(cbErr)
    /\ pos <= Len(visits)
    /\ LET v == visits[pos]
       IN  /\ Ext(v.path) # TplSuffix \/ ~v.infoNil
           /\ SkipVisit(v.path, v.isDir)
           /\ walkErrSeen' = (walkErrSeen \/ v.err)
    /\ pos' = pos + 1
    /\ UNCHANGED << inputs, swagger, pc, kind, cbErr, fsVars, logVars, helperVars,
                    status, diag >>

\* Line 92 with info = nil (the path could not be lstat-ed) and a path that
\* has the template suffix: info.IsDir() dereferences nil and the process
\* panics.
CallbackPanic ==
    /\ pc = "walk"
    /\ ~WalkStops(cbErr)
    /\ pos <= Len(visits)
    /\ visits[pos].infoNil
    /\ Ext(visits[pos].path) = TplSuffix
    /\ walkErrSeen' = TRUE
    /\ status' = "panic"
    /\ pc' = "exit"
    /\ UNCHANGED << inputs, swagger, pos, kind, cbErr, fsVars, logVars, helperVars,
                    diag >>

\* Lines 95-99: a template file; filepath.Rel of two absolute paths succeeds.
CallbackEnter ==
    /\ pc = "walk"
    /\ ~WalkStops(cbErr)
    /\ pos <= Len(visits)
    /\ ~visits[pos].infoNil
    /\ ~SkipVisit(visits[pos].path, visits[pos].isDir)
    /\ pc' = "read"
    /\ UNCHANGED << inputs, swagger, walkVars, fsVars, logVars, helperVars,
                    status, diag >>

\* Lines 100-103: readFile(path).
ReadTemplate ==
    /\ pc = "read"
    /\ readLog' = Append(readLog, visits[pos].path)
    /\ \E readOK \in BOOLEAN :
          IF readOK
          THEN pc' = "parse" /\ UNCHANGED cbErr
          ELSE /\ cbErr' = Err("cannot load template", {visits[pos].path},
                               "open: permission denied")
               /\ pc' = "return"
    /\ UNCHANGED << inputs, swagger, pos, kind, walkErrSeen, fsVars, renderLog,
                    helperVars, status, diag >>

\* The error of lines 176-184 for a text that is no template.  The template
\* is created under the name "openapigen", which is what the engine's error
\* text carries.
ParseError(html) ==
    Err(IF html THEN "cannot parse template (html mode)"
                ELSE "cannot parse template (text mode)",
        {}, "template: openapigen:1: unexpected token")

\* The parse step as it would be if the destination file were created before
\* the template is parsed: the file is made or truncated, then the parse is
\* tried.
ParseTemplateAfterCreate ==
    /\ pc = "parse"
    /\ \E k \in TemplateKinds :
          /\ kind' = k
          /\ IF k = "badparse"
             THEN cbErr' = ParseError(isHTML) /\ pc' = "return"
             ELSE pc' = "mkdir" /\ UNCHANGED cbErr
    /\ outFiles' = IF CanCreate(OutputFileOf(visits[pos].path))
                   THEN (OutputFileOf(visits[pos].path) :> "empty") @@ outFiles
                   ELSE outFiles
    /\ UNCHANGED << inputs, swagger, pos, walkErrSeen, openFds, outDirs, logVars,
                    helperVars, status, diag >>

\* Lines 174-185: the template is parsed by the engine -html selects.
ParseTemplate ==
    /\ pc = "parse"
    /\ \E k \in TemplateKinds :
          /\ kind' = k
          /\ IF k = "badparse"
             THEN cbErr' = ParseError(isHTML) /\ pc' = "return"
             ELSE pc' = "mkdir" /\ UNCHANGED cbErr
    /\ UNCHANGED << inputs, swagger, pos, walkErrSeen, fsVars, logVars, helperVars,
                    status, diag >>

\* Lines 186-191: the destination directory is made when os.Stat says it
\* does not exist.  The error of line 189 names dir and, in the wrapped
\* error of os.MkdirAll, the directory whose Mkdir failed.
MakeDir ==
    /\ pc = "mkdir"
    /\ LET dir == OutputDirOf(visits[pos].path)
       IN  IF StatNotExist(dir)
           THEN \E mkdirOK \in BOOLEAN :
                   IF mkdirOK /\ CanMkdirAll(dir)
                   THEN /\ outDirs' = outDirs \cup Ancestors(dir)
                        /\ pc' = "create"
                        /\ UNCHANGED cbErr
                   ELSE /\ pc' = "return"
                        /\ \E failed \in Ancestors(dir) \ outDirs :
                              /\ cbErr' = Err("cannot create directory", {dir, failed},
                                              "mkdir: permission denied")
                              /\ outDirs' = outDirs \cup MadeBefore(dir, failed)
           ELSE pc' = "create" /\ UNCHANGED << cbErr, outDirs >>
    /\ UNCHANGED << inputs, swagger, pos, kind, walkErrSeen, openFds, outFiles,
                    logVars, helperVars, status, diag >>

\* Lines 192-196: os.Create makes or truncates the destination file.
CreateFile ==
    /\ pc = "create"
    /\ LET name == OutputFileOf(visits[pos].path)
       IN  \E createOK \in BOOLEAN :
              IF createOK /\ CanCreate(name)
              THEN /\ outFiles' = (name :> "empty") @@ outFiles
                   /\ openFds' = openFds \cup {[visit |-> pos, name |-> name]}
                   /\ renderLog' = Append(renderLog,
                                          [path |-> visits[pos].path, name |-> name])
                   /\ pc' = "execute"
                   /\ UNCHANGED cbErr
              ELSE /\ cbErr' = Err("cannot create output file", {name},
                                   "open: cannot create")
                   /\ pc' = "return"
                   /\ UNCHANGED << outFiles, openFds, renderLog >>
    /\ UNCHANGED << inputs, swagger, pos, kind, walkErrSeen, outDirs, readLog,
                    helperVars, status, diag >>

\* Whether tpl.Execute(fd, swagger) fails for a template of the kind: a field
\* of a nil model cannot be evaluated, a helper that panics (uniquePathTags
\* reads swagger.Paths) is reported as an error by the engine.
ExecuteFails(k, sw) ==
    \/ k = "execfail"
    \/ k \in {"field", "tags"} /\ sw.nil

RenderError == Err("cannot render output", {}, "template: openapigen:1: executing")

\* Lines 197-199, a template that renders.
ExecuteOK ==
    /\ pc = "execute"
    /\ ~ExecuteFails(kind, swagger)
    /\ outFiles' = [outFiles EXCEPT ![OutputFileOf(visits[pos].path)] = "rendered"]
    /\ IF kind = "tags"
       THEN \E po \in Orders(DOMAIN swagger.Paths) :
               \E dictOrder \in DictOrders(swagger.Paths, po) :
                  /\ pathOrder' = po
                  /\ tagsOut' = uniquePathTags(swagger.Paths, po, dictOrder)
                  /\ UNCHANGED << letterIn, letterOut >>
       ELSE IF kind = "letter"
       THEN \E s \in LetterInputs :
               /\ letterIn' = s
               /\ letterOut' = firstLetter(s)
               /\ UNCHANGED << pathOrder, tagsOut >>
       ELSE UNCHANGED helperVars
    /\ pc' = "return"
    /\ UNCHANGED << inputs, swagger, walkVars, openFds, outDirs, logVars,
                    status, diag >>

\* Lines 197-199, a template whose rendering fails: what was written before
\* the failing action stays in the file.
ExecuteFail ==
    /\ pc = "execute"
    /\ ExecuteFails(kind, swagger)
    /\ \E written \in {"empty", "partial"} :
          outFiles' = [outFiles EXCEPT ![OutputFileOf(visits[pos].path)] = written]
    /\ cbErr' = RenderError
    /\ pc' = "return"
    /\ UNCHANGED << inputs, swagger, pos, kind, walkErrSeen, openFds, outDirs,
                    logVars, helperVars, status, diag >>

\* The callback returns: the deferred fd.Close() runs (line 196), and the
\* walk goes on to the next visit when the callback returned nil.
CallbackReturn ==
    /\ pc = "return"
    /\ openFds' = DeferredClose(openFds, pos)
    /\ pos' = IF WalkStops(cbErr) THEN pos ELSE pos + 1
    /\ kind' = "none"
    /\ pathOrder' = <<>>
    /\ tagsOut' = <<>>
    /\ letterIn' = <<>>
    /\ letterOut' = <<>>
    /\ pc' = "walk"
    /\ UNCHANGED << inputs, swagger, cbErr, walkErrSeen, outDirs, outFiles,
                    logVars, status, diag >>

\* Lines 202-204: the walk returned an error.
WalkFails ==
    /\ pc = "walk"
    /\ WalkStops(cbErr)
    /\ Fatal("cannot iterate through template files:", cbErr)
    /\ UNCHANGED << inputs, swagger, walkVars, fsVars, logVars, helperVars >>

\* Line 205: the walk returned nil and main returns.
WalkDone ==
    /\ pc = "walk"
    /\ ~WalkStops(cbErr)
    /\ pos > Len(visits)
    /\ status' = "exit0"
    /\ pc' = "exit"
    /\ UNCHANGED << inputs, swagger, walkVars, fsVars, logVars, helperVars, diag >>

Next ==
    \/ OpenSpec
    \/ DecodeSpec
    \/ ViewSpec
    \/ ResolveDirs
    \/ CallbackSkip
    \/ CallbackPanic
    \/ CallbackEnter
    \/ ReadTemplate
    \/ ParseTemplate
    \/ MakeDir
    \/ CreateFile
    \/ ExecuteOK
    \/ ExecuteFail
    \/ CallbackReturn
    \/ WalkFails
    \/ WalkDone

Spec == Init /\ [][Next]_vars

(***************************************************************************)
(* The helper functions on their own: a description and an argument are    *)
(* drawn, and the helpers are applied to them.                             *)
(***************************************************************************)
HelperInit ==
    /\ isOpenAPIV2 = TRUE
    /\ isHTML = FALSE
    /\ view = FALSE
    /\ specFile \in {[kind |-> "valid", doc |-> Swagger(p)] : p \in PathMaps}
    /\ templateDir = <<"/", "t">>
    /\ tree = [root |-> "missing", entries |-> <<>>]
    /\ pc = "helpers"
    /\ letterIn \in LetterInputs
    /\ Start

\* The description is loaded (lines 60-68).
LoadModel ==
    /\ pc = "helpers"
    /\ swagger = NilSwagger
    /\ swagger' = DecodeResult(isOpenAPIV2, specFile)
    /\ UNCHANGED << inputs, pc, walkVars, fsVars, logVars, helperVars, status, diag >>

\* A template calls uniquePathTags (lines 131-172).
CallUniquePathTags ==
    /\ pc = "helpers"
    /\ ~swagger.nil
    /\ \E po \in Orders(DOMAIN swagger.Paths) :
          \E dictOrder \in DictOrders(swagger.Paths, po) :
             /\ pathOrder' = po
             /\ tagsOut' = uniquePathTags(swagger.Paths, po, dictOrder)
    /\ kind' = "tags"
    /\ UNCHANGED << inputs, swagger, pc, pos, cbErr, walkErrSeen, fsVars, logVars,
                    letterIn, letterOut, status, diag >>

\* A template calls firstLetter (lines 108-113).
CallFirstLetter ==
    /\ pc = "helpers"
    /\ letterOut' = firstLetter(letterIn)
    /\ kind' = "letter"
    /\ UNCHANGED << inputs, swagger, pc, pos, cbErr, walkErrSeen, fsVars, logVars,
                    pathOrder, tagsOut, letterIn, status, diag >>

HelperNext ==
    \/ LoadModel
    \/ CallUniquePathTags
    \/ CallFirstLetter

SpecHelpers == HelperInit /\ [][HelperNext]_vars


(***************************************************************************)
(* What the properties speak of.                                           *)
(***************************************************************************)
Range(seq) == {seq[i] : i \in DOMAIN seq}

\* The paths of the template files in the tree: the regular files whose name
\* ends in the template suffix; with discoveredOnly, those the walk can
\* reach (not inside a directory that cannot be read).
TemplateFilesIn(discoveredOnly) ==
    IF tree.root \notin {"ok", "nosearch"} \/ (discoveredOnly /\ tree.root # "ok")
    THEN {}
    ELSE LET e == tree.entries
         IN  { templateDir \o <<"/">> \o n :
                 n \in {m \in DOMAIN e : ~e[m].isDir /\ HasSuffix(m, TplSuffix)} }
             \cup
             UNION { { templateDir \o <<"/">> \o d \o <<"/">> \o k :
                         k \in {x \in e[d].kids : HasSuffix(x, TplSuffix)} } :
                     d \in {m \in DOMAIN e :
                              e[m].isDir
                              /\ ((e[m].readable /\ e[m].search) \/ ~discoveredOnly)} }

\* The destination the specification gives a template file: the part of its
\* path below the template root, put below the output root, without the last
\* four characters (the suffix) of the file name.
ExpectedDestination(path) ==
    LET rel == SubSeq(path, Len(templateDir) + 1, Len(path))
    IN  outputDir \o SubSeq(rel, 1, Len(rel) - Len(TplSuffix))

\* The run ended with status zero after walking the templates.
Succeeded == status = "exit0" /\ ~view

\* The path of the template the callback works on, or worked on last.
LastRead == readLog[Len(readLog)]

\* The first character of a UTF-8 string: one to four bytes, by its lead byte.
FirstChar(s) ==
    IF s = <<>> THEN <<>>
    ELSE IF s[1] < 128 THEN SubSeq(s, 1, 1)
    ELSE IF s[1] < 224 THEN SubSeq(s, 1, 2)
    ELSE IF s[1] < 240 THEN SubSeq(s, 1, 3)
    ELSE SubSeq(s, 1, 4)

\* Every tag of every operation of every path of the description.
AllTags(sw) ==
    UNION { UNION { Range(sw.Paths[k][m].Tags) :
                      m \in {x \in Range(Methods) : sw.Paths[k][x].present} } :
              k \in DOMAIN sw.Paths }

\* uniquePathTags has just returned its result to the template.
TagsReturned == kind = "tags" /\ pc \in {"helpers", "return"} /\ cbErr = NoErr

\* firstLetter has just returned its result to the template.
LetterReturned == kind = "letter" /\ pc \in {"helpers", "return"} /\ cbErr = NoErr

(***************************************************************************)
(* C1: without -v2mode the input document is parsed into the model before  *)
(* any template is rendered, and an empty or unparsable document aborts    *)
(* the run: whenever a template is about to be executed in such a run, the *)
(* model is there and the document was a valid one.                        *)
(* The code does not do this: swagger is only assigned under -v2mode.      *)
(***************************************************************************)
C1_ParsedBeforeRender ==
    (~isOpenAPIV2 /\ pc = "execute") => (~swagger.nil /\ specFile.kind = "valid")

(***************************************************************************)
(* C2: the walk is fail-fast.  Once the callback has an error, no step     *)
(* reads another template, creates or writes another output file or makes  *)
(* another directory, and the files written so far stay as they are.       *)
(***************************************************************************)
C2_FailFast ==
    [][cbErr # NoErr =>
         /\ readLog' = readLog
         /\ renderLog' = renderLog
         /\ outFiles' = outFiles
         /\ outDirs' = outDirs
         /\ cbErr' = cbErr
         /\ status' # "exit0"]_vars

\* A template failed after an earlier one was rendered and with a later
\* visit still to come; the earlier output is in place.
C2_Witness ==
    /\ cbErr # NoErr
    /\ pc = "exit"
    /\ status = "exit1"
    /\ Len(readLog) >= 2
    /\ pos < Len(visits)
    /\ \E f \in DOMAIN outFiles : outFiles[f] = "rendered"

(***************************************************************************)
(* C3: every error is fatal.  A run ends with status zero only when the    *)
(* walk reported no error to the callback and every template file under    *)
(* the template root has been processed.                                   *)
(* The code swallows the errors of the walk: the callback never reads its  *)
(* err parameter.                                                          *)
(***************************************************************************)
C3_EveryErrorFatal ==
    Succeeded =>
        /\ ~walkErrSeen
        /\ \A p \in TemplateFilesIn(FALSE) :
              \E i \in DOMAIN renderLog : renderLog[i].path = p

(***************************************************************************)
(* C4: when a template fails to parse, the diagnostic of the run names the *)
(* path of that template file.                                             *)
(* The code wraps the engine's error, which carries the template's name    *)
(* "openapigen", and adds no path.                                         *)
(***************************************************************************)
C4_ParseErrorNamesPath ==
    (status = "exit1" /\ diag.err.stage \in {ParseError(TRUE).stage, ParseError(FALSE).stage})
        => LastRead \in diag.err.names

(***************************************************************************)
(* C5: after a successful run, every template file the walk discovered at  *)
(* <template root>/<rel dir>/<name>.tpl has its rendered output at         *)
(* <output root>/<rel dir>/<name>, in a directory that exists.             *)
(***************************************************************************)
C5_Mirrored ==
    Succeeded =>
        \A p \in TemplateFilesIn(TRUE) :
            /\ ExpectedDestination(p) \in DOMAIN outFiles
            /\ outFiles[ExpectedDestination(p)] = "rendered"
            /\ SubSeq(ExpectedDestination(p), 1, LastSlash(ExpectedDestination(p)) - 1)
                   \in outDirs

\* A successful run over a tree with a template at the root and one in a
\* sub-directory.
C5_Witness ==
    /\ Succeeded
    /\ \E p, q \in TemplateFilesIn(TRUE) :
          /\ Len(SplitSlash(p)) = Len(SplitSlash(templateDir)) + 1
          /\ Len(SplitSlash(q)) = Len(SplitSlash(templateDir)) + 2
          /\ {ExpectedDestination(p), ExpectedDestination(q)} \subseteq DOMAIN outFiles

(***************************************************************************)
(* C6, as claimed: after a successful run no file under the output root    *)
(* has a name ending in ".tpl", whatever the names in the template tree.   *)
(***************************************************************************)
C6_NoSuffixAtAll ==
    Succeeded => \A f \in DOMAIN outFiles : ~HasSuffix(f, TplSuffix)

(***************************************************************************)
(* C6, amended: after a successful run a file under the output root has a  *)
(* name ending in ".tpl" only if it was generated from a template whose    *)
(* name carries the suffix more than once (<name>.tpl.tpl gives            *)
(* <name>.tpl): exactly one suffix is stripped.  Templates with a single   *)
(* suffix, also those inside directories named *.tpl, give no such file.   *)
(***************************************************************************)
C6_OneSuffixStripped ==
    Succeeded =>
        \A f \in DOMAIN outFiles :
            HasSuffix(f, TplSuffix) =>
                \E p \in TemplateFilesIn(TRUE) :
                    /\ HasSuffix(p, TplSuffix \o TplSuffix)
                    /\ ExpectedDestination(p) = f

\* A successful run that rendered a template inside a directory named
\* *.tpl and a template whose name carries the suffix twice.
C6_Witness ==
    /\ Succeeded
    /\ \E f \in DOMAIN outFiles : HasSuffix(f, TplSuffix)
    /\ \E p \in TemplateFilesIn(TRUE) :
          /\ HasSuffix(Dir(p), TplSuffix)
          /\ Dir(p) # templateDir
          /\ ExpectedDestination(p) \in DOMAIN outFiles

(***************************************************************************)
(* C7: at most one output file is open at any time, it is the one of the   *)
(* template being processed, and none is open when the walk considers the  *)
(* next visit or the run has ended, whether rendering succeeded or failed. *)
(***************************************************************************)
C7_OneHandle ==
    /\ Cardinality(openFds) <= 1
    /\ \A f \in openFds : f.visit = pos /\ pc \in {"execute", "return"}
    /\ pc \in {"walk", "exit"} => openFds = {}

\* The walk is back at its loop after a template whose rendering failed,
\* and after an earlier template was rendered.
C7_Witness ==
    /\ pc = "walk"
    /\ cbErr = RenderError
    /\ Len(renderLog) >= 2
    /\ openFds = {}

(***************************************************************************)
(* C8: uniquePathTags returns every tag of every operation of every path,  *)
(* each once, in ascending order, whatever the iteration order of the      *)
(* paths; operations tagged {b,a}, {a}, {} give exactly <<a, b>>.          *)
(***************************************************************************)
C8_UniqueSortedTags ==
    TagsReturned =>
        /\ Range(tagsOut) = AllTags(swagger)
        /\ \A i, j \in DOMAIN tagsOut : i < j => StrLess(tagsOut[i], tagsOut[j])
        /\ swagger = ExampleDoc => tagsOut = << <<"a">>, <<"b">> >>

\* The example description, its paths iterated second one first.
C8_Witness ==
    /\ TagsReturned
    /\ swagger = ExampleDoc
    /\ pathOrder = <<2, 1>>
    /\ tagsOut = << <<"a">>, <<"b">> >>

(***************************************************************************)
(* C9: two distinct template files under the template root never map to    *)
(* the same destination path, and no two output files created in a run     *)
(* for distinct templates have the same path.                              *)
(***************************************************************************)
C9_NoCollision ==
    /\ \A p, q \in TemplateFilesIn(TRUE) :
          p # q => OutputFileOf(p) # OutputFileOf(q)
    /\ \A i, j \in DOMAIN renderLog :
          renderLog[i].path # renderLog[j].path => renderLog[i].name # renderLog[j].name

\* Output files were created for two templates of the same file name in
\* different directories.
C9_Witness ==
    /\ Len(renderLog) >= 2
    /\ \E i, j \in DOMAIN renderLog :
          /\ i # j
          /\ Base(renderLog[i].path) = Base(renderLog[j].path)

(***************************************************************************)
(* C10: firstLetter returns "" for "" and otherwise the first character of *)
(* its argument, also when that character takes more than one byte.        *)
(* The code converts the first byte to a string, which for a byte of 0x80  *)
(* or more is the encoding of another character.                           *)
(***************************************************************************)
C10_FirstLetterIsFirstChar ==
    LetterReturned => letterOut = FirstChar(letterIn)


(***************************************************************************)
(* C11: within one template the steps run in the order read, parse, make   *)
(* the destination directory, create or truncate the destination file,     *)
(* render.  Reading and parsing touch nothing on the output side, so a     *)
(* template whose read or parse fails has no directory made and no file    *)
(* created or truncated for it; a template whose render fails keeps its    *)
(* destination file, empty or partly written, and nothing removes it.      *)
(***************************************************************************)
ReadOrParseFailed ==
    cbErr.stage \in {"cannot load template", ParseError(TRUE).stage, ParseError(FALSE).stage}

C11_StepOrder ==
    [][/\ pc = "read" => pc' \in {"parse", "return"}
       /\ pc = "parse" => pc' \in {"mkdir", "return"}
       /\ pc = "mkdir" => pc' \in {"create", "return"}
       /\ pc = "create" => pc' \in {"execute", "return"}
       /\ pc = "execute" => pc' = "return"
       /\ pc \in {"read", "parse"} =>
             /\ outDirs' = outDirs
             /\ outFiles' = outFiles
             /\ openFds' = openFds
             /\ renderLog' = renderLog
       /\ pc = "mkdir" => (outFiles' = outFiles /\ renderLog' = renderLog)
       /\ ReadOrParseFailed' =>
             /\ outDirs' = outDirs
             /\ outFiles' = outFiles
             /\ \A i \in DOMAIN renderLog' : renderLog'[i].path # LastRead'
             /\ OutputFileOf(LastRead') \notin DOMAIN outFiles'
       /\ cbErr' = RenderError =>
             /\ renderLog'[Len(renderLog')].path = LastRead'
             /\ OutputFileOf(LastRead') \in DOMAIN outFiles'
             /\ outFiles'[OutputFileOf(LastRead')] \in {"empty", "partial"}
             /\ outDirs \subseteq outDirs']_vars

\* The run has ended on a template whose rendering failed: its destination
\* file is there, partly written, in a directory made for it, beside the
\* output of an earlier template.
C11_Witness ==
    /\ status = "exit1"
    /\ cbErr = RenderError
    /\ outFiles[OutputFileOf(LastRead)] = "partial"
    /\ OutputDirOf(LastRead) # outputDir
    /\ \E f \in DOMAIN outFiles : outFiles[f] = "rendered"

====
